---------------------------- MODULE Spec2Model ----------------------------
(***************************************************************************)
(* Model of examples/p01: the mock-data generator (generate_mock_data),    *)
(* the tolerant loader (data_ingestion::open_file, parse_line) and the     *)
(* aggregation strategies of mod analysis.                                 *)
(*                                                                         *)
(* Text is a sequence of one-character strings.  An Option<T> is a         *)
(* sequence of length 0 (None) or 1 (Some).                                *)
(***************************************************************************)
EXTENDS Integers, Sequences, FiniteSets, TLC

VARIABLES
    \* parse_line applied to one line
    line, p_pc, parsed,
    \* open_file
    file, l_pc, line_num, records, warnings, io_error, l_ret,
    \* generate_mock_data
    target_size_gb, target_bytes, written_bytes, record_count,
    malformed_records, sink, emitted, g_pc, g_ret,
    \* the analysis strategies, run one after the other on one collection
    collection, sum_zero, a_pc, greedy_ret, functional_ret, rayon_ret,
    polars_ret, partitions

parseVars == <<line, p_pc, parsed>>
loadVars  == <<file, l_pc, line_num, records, warnings, io_error, l_ret>>
genVars   == <<target_size_gb, target_bytes, written_bytes, record_count,
               malformed_records, sink, emitted, g_pc, g_ret>>
aggVars   == <<collection, sum_zero, a_pc, greedy_ret, functional_ret,
               rayon_ret, polars_ret, partitions>>
vars      == <<parseVars, loadVars, genVars, aggVars>>

(***************************************************************************)
(* Bounds of the model.                                                    *)
(***************************************************************************)
MaxFields    == 5   \* most '|'-separated fields of an input line
MaxAmountLen == 3   \* most characters of the last field of an input line
MaxLines     == 4   \* most lines of an input file
MaxRecords   == 3   \* most records of an aggregated collection
MaxGB        == 2   \* largest target size that fits, in units of GB
\* The generator counts bytes in usize and takes its target in units of
\* 1024 * 1024 * 1024 bytes.  Both are scaled down so that a run is a few
\* record lines long: the unit stays longer than the longest record line,
\* and usize stays a whole number of units away from wrapping.
GB           == 64  \* bytes per unit of target size (2^30 in the program)
UsizeRange   == 512 \* number of usize values (2^64 in the program)

None == <<>>
Some(x) == <<x>>

(***************************************************************************)
(* Text helpers: str::split('|'), str::trim, decimal digits.               *)
(***************************************************************************)
IsWhitespace(c) == c \in {" ", "\t", "\r", "\n"}
IsDigit(c) == c \in {"0", "1", "2", "3", "4", "5", "6", "7", "8", "9"}
DigitValue(c) ==
    CASE c = "0" -> 0 [] c = "1" -> 1 [] c = "2" -> 2 [] c = "3" -> 3
      [] c = "4" -> 4 [] c = "5" -> 5 [] c = "6" -> 6 [] c = "7" -> 7
      [] c = "8" -> 8 [] c = "9" -> 9

\* line.split('|').collect(): one more piece than there are delimiters; the
\* empty line yields the single empty piece.
RECURSIVE Split(_)
Split(s) ==
    IF \A i \in 1..Len(s) : s[i] # "|"
    THEN <<s>>
    ELSE LET i == CHOOSE k \in 1..Len(s) :
                      s[k] = "|" /\ \A j \in 1..(k - 1) : s[j] # "|"
         IN  <<SubSeq(s, 1, i - 1)>> \o Split(SubSeq(s, i + 1, Len(s)))

RECURSIVE TrimStart(_)
TrimStart(s) ==
    IF s # <<>> /\ IsWhitespace(Head(s)) THEN TrimStart(Tail(s)) ELSE s

RECURSIVE TrimEnd(_)
TrimEnd(s) ==
    IF s # <<>> /\ IsWhitespace(s[Len(s)])
    THEN TrimEnd(SubSeq(s, 1, Len(s) - 1)) ELSE s

\* str::trim
Trim(s) == TrimEnd(TrimStart(s))

(***************************************************************************)
(* f64.  A value is [neg, m, e] = (-1)^neg * m * 10^(-e), normalised so    *)
(* that equal numbers are equal records; neg distinguishes -0.0 from 0.0.  *)
(* <f64 as FromStr>: [+-] digits [. digits] with at least one digit.  The  *)
(* exponent form and inf/nan need letters the input alphabets do not hold. *)
(***************************************************************************)
RECURSIVE Normalise(_)
Normalise(v) ==
    IF v.e > 0 /\ v.m % 10 = 0
    THEN Normalise([v EXCEPT !.m = v.m \div 10, !.e = v.e - 1])
    ELSE v

RECURSIVE DigitsValue(_)
DigitsValue(s) ==
    IF s = <<>> THEN 0
    ELSE 10 * DigitsValue(SubSeq(s, 1, Len(s) - 1)) + DigitValue(s[Len(s)])

Unsigned(s) == IF s # <<>> /\ Head(s) \in {"+", "-"} THEN Tail(s) ELSE s
DotAt(s) == {i \in 1..Len(s) : s[i] = "."}

\* dec2flt accepts s: a non-empty string, an optional sign, then digits with
\* at most one '.', and at least one digit.
IsFloatLiteral(s) ==
    LET u == Unsigned(s)
    IN  /\ s # <<>>
        /\ Cardinality(DotAt(u)) <= 1
        /\ \A i \in 1..Len(u) : IsDigit(u[i]) \/ u[i] = "."
        /\ \E i \in 1..Len(u) : IsDigit(u[i])

\* The value of an accepted literal.
ParseF64(s) ==
    LET u    == Unsigned(s)
        dot  == IF DotAt(u) = {} THEN Len(u) + 1 ELSE CHOOSE i \in DotAt(u) : TRUE
        int  == SubSeq(u, 1, dot - 1)
        frac == SubSeq(u, dot + 1, Len(u))
    IN  Normalise([neg |-> s # <<>> /\ Head(s) = "-",
                   m   |-> DigitsValue(int \o frac),
                   e   |-> Len(frac)])

\* ParseFloatError { kind: Empty | Invalid }: it holds no text.
ParseFloatError(s) ==
    [kind |-> "ParseFloatError", detail |-> IF s = <<>> THEN "Empty" ELSE "Invalid",
     expected |-> None, got |-> None, text |-> None]

(***************************************************************************)
(* data_ingestion::parse_line.  A result is [ok, record, err]; an error    *)
(* (Box<dyn Error>) is [kind, detail, expected, got, text], the last three *)
(* being what its message reports.                                         *)
(***************************************************************************)
NoRecord == [id |-> <<>>, from_id |-> <<>>, to_id |-> <<>>,
             amount |-> [neg |-> FALSE, m |-> 0, e |-> 0]]
NoError  == [kind |-> "none", detail |-> "none",
             expected |-> None, got |-> None, text |-> None]
Ok(r)  == [ok |-> TRUE, record |-> r, err |-> NoError]
Err(e) == [ok |-> FALSE, record |-> NoRecord, err |-> e]

\* "Not enough fields (expected 4)!"
NotEnoughFields ==
    [kind |-> "NotEnoughFields", detail |-> "none",
     expected |-> Some(4), got |-> None, text |-> None]

\* "Malformed record: expected 4 fields, got {n}"
MalformedRecord(n) ==
    [kind |-> "MalformedRecord", detail |-> "none",
     expected |-> Some(4), got |-> Some(n), text |-> None]

ParseLineTrimNoAmount(l) ==
    LET parts == Split(l)
    IN  IF Len(parts) < 4 THEN Err(NotEnoughFields)
        ELSE IF Len(parts) # 4 THEN Err(MalformedRecord(Len(parts)))
        ELSE IF ~IsFloatLiteral(parts[4]) THEN Err(ParseFloatError(parts[4]))
        ELSE Ok([id      |-> Trim(parts[1]),
                 from_id |-> Trim(parts[2]),
                 to_id   |-> Trim(parts[3]),
                 amount  |-> ParseF64(parts[4])])

ParseLineAtLeastFour(l) ==
    LET parts == Split(l)
    IN  IF Len(parts) < 4 THEN Err(NotEnoughFields)
        ELSE LET amount == Trim(parts[4])
             IN  IF ~IsFloatLiteral(amount) THEN Err(ParseFloatError(amount))
                 ELSE Ok([id      |-> Trim(parts[1]),
                          from_id |-> Trim(parts[2]),
                          to_id   |-> Trim(parts[3]),
                          amount  |-> ParseF64(amount)])

parse_line(l) ==
    LET parts == Split(l)
    IN  IF Len(parts) < 4 THEN Err(NotEnoughFields)
        ELSE IF Len(parts) # 4 THEN Err(MalformedRecord(Len(parts)))
        ELSE LET amount == Trim(parts[4])
             IN  IF ~IsFloatLiteral(amount) THEN Err(ParseFloatError(amount))
                 ELSE Ok([id      |-> Trim(parts[1]),
                          from_id |-> Trim(parts[2]),
                          to_id   |-> Trim(parts[3]),
                          amount  |-> ParseF64(amount)])

(***************************************************************************)
(* Input lines: up to MaxFields fields joined by '|'.  The leading fields  *)
(* come from IdSamples, the last one is any text over AmountAlphabet of at *)
(* most MaxAmountLen characters.                                           *)
(***************************************************************************)
IdSamples == {<<>>, <<" ", "A">>, <<"7", "l", " ">>}
AmountAlphabet == {" ", "0", "1", ".", "-", "x"}

RECURSIVE Join(_)
Join(fields) ==
    IF Len(fields) = 1 THEN fields[1]
    ELSE fields[1] \o <<"|">> \o Join(Tail(fields))

\* l is k fields from IdSamples and a last field of n characters.
IsInputLine(l, k, n) ==
    \E ids \in [1..k -> IdSamples], last \in [1..n -> AmountAlphabet] :
        l = Join(ids \o <<last>>)

ParseIdle == line = <<>> /\ p_pc = "idle" /\ parsed = None

ParseInit ==
    /\ \E k \in 0..(MaxFields - 1), n \in 0..MaxAmountLen : IsInputLine(line, k, n)
    /\ p_pc = "call" /\ parsed = None

\* One call of parse_line.
ParseLine ==
    /\ p_pc = "call"
    /\ p_pc' = "returned"
    /\ parsed' = Some(parse_line(line))
    /\ UNCHANGED <<line, loadVars, genVars, aggVars>>

(***************************************************************************)
(* data_ingestion::open_file.  The file is the sequence of its lines as    *)
(* BufRead::lines yields them; whether File::open or a read fails is the   *)
(* environment's choice.  io_error records that the environment failed.    *)
(***************************************************************************)
HeaderLine  == <<"i", "d", "|", "f", "r", "o", "m", "_", "i", "d", "|",
                 "t", "o", "_", "i", "d", "|", "a", "m", "o", "u", "n", "t">>
GoodLineA   == <<"A", "|", "B", "|", "C", "|", "1", ".", "5">>
GoodLineB   == <<" ", "T", "|", "|", "B", " ", "|", " ", "-", "2", " ">>
MergedLine  == <<"A", "|", "B", "l", "C", "|", "1">>
BadAmount   == <<"A", "|", "B", "|", "C", "|", "x">>
ExtraField  == <<"A", "|", "B", "|", "C", "|", "1", "|", "2">>
LineSamples == {HeaderLine, GoodLineA, GoodLineB, MergedLine, BadAmount,
                ExtraField, <<>>}

IoError == [kind |-> "IoError", detail |-> "none",
            expected |-> None, got |-> None, text |-> None]

LoadOk(rs) == [ok |-> TRUE, value |-> rs, err |-> NoError]
LoadErr(e) == [ok |-> FALSE, value |-> <<>>, err |-> e]
NoReturn   == [ok |-> FALSE, value |-> <<>>, err |-> NoError]

LoadIdle ==
    /\ file = <<>> /\ l_pc = "idle" /\ line_num = 0 /\ records = <<>>
    /\ warnings = <<>> /\ io_error = FALSE /\ l_ret = NoReturn

LoadInit ==
    /\ \E n \in 0..MaxLines : file \in [1..n -> LineSamples]
    /\ l_pc = "open" /\ line_num = 0 /\ records = <<>>
    /\ warnings = <<>> /\ io_error = FALSE /\ l_ret = NoReturn

\* File::open(path)? fails: the error is returned.
OpenFail ==
    /\ l_pc = "open"
    /\ io_error' = TRUE
    /\ l_pc' = "done"
    /\ l_ret' = LoadErr(IoError)
    /\ UNCHANGED <<file, line_num, records, warnings, parseVars, genVars, aggVars>>

OpenOk ==
    /\ l_pc = "open"
    /\ l_pc' = "loop"
    /\ UNCHANGED <<file, line_num, records, warnings, io_error, l_ret, parseVars, genVars, aggVars>>

\* if line_num == 0 { continue; }
SkipNothing(n) == FALSE
SkipHeader(n) == n = 0

\* The Err arm of the match: the line is reported and scanning goes on.
AbortOnParseError(n, text, e) ==
    /\ l_pc' = "done"
    /\ l_ret' = LoadErr(e)
    /\ UNCHANGED <<records, warnings>>

OnParseError(n, text, e) ==
    /\ warnings' = Append(warnings, [line |-> n + 1, text |-> text, err |-> e])
    /\ UNCHANGED <<records, l_pc, l_ret>>

\* One iteration of the for loop whose read succeeds.
ReadLine ==
    /\ l_pc = "loop"
    /\ line_num < Len(file)
    /\ LET text == file[line_num + 1]
           res  == parse_line(text)
       IN  IF SkipHeader(line_num)
           THEN UNCHANGED <<records, warnings, l_pc, l_ret>>
           ELSE IF res.ok
           THEN /\ records' = Append(records, res.record)
                /\ UNCHANGED <<warnings, l_pc, l_ret>>
           ELSE OnParseError(line_num, text, res.err)
    /\ line_num' = line_num + 1
    /\ UNCHANGED <<file, io_error, parseVars, genVars, aggVars>>

\* let line = line?; with the read failing: the error is returned and
\* the records collected so far are dropped with the function's frame.
ReadFail ==
    /\ l_pc = "loop"
    /\ io_error' = TRUE
    /\ l_pc' = "done"
    /\ l_ret' = LoadErr(IoError)
    /\ UNCHANGED <<file, line_num, records, warnings, parseVars, genVars, aggVars>>

\* The iterator is exhausted: Ok(records).
LoadReturn ==
    /\ l_pc = "loop"
    /\ line_num = Len(file)
    /\ l_pc' = "done"
    /\ l_ret' = LoadOk(records)
    /\ UNCHANGED <<file, line_num, records, warnings, io_error, parseVars, genVars, aggVars>>

(***************************************************************************)
(* generate_mock_data.  The sink is the sequence of the lines written,     *)
(* each with its newline.  What rand draws is the environment's choice,    *)
(* taken from small sets that hold the ends of each range; the amount is   *)
(* drawn as the hundredths that {:.2} renders.  emitted remembers what     *)
(* each record line was built from.                                        *)
(***************************************************************************)
AccMin == 1000000
AccMax == 9999998
AccountSamples == {AccMin, AccMax}
AmountCentsSamples == {100, 10000000}

DigitChar(d) == <<"0", "1", "2", "3", "4", "5", "6", "7", "8", "9">>[d + 1]

RECURSIVE Digits(_)
Digits(n) ==
    IF n < 10 THEN <<DigitChar(n)>>
    ELSE Digits(n \div 10) \o <<DigitChar(n % 10)>>

RECURSIVE ZeroPad(_, _)
ZeroPad(s, width) == IF Len(s) >= width THEN s ELSE ZeroPad(<<"0">> \o s, width)

\* format!("TXN{:010}", record_count)
FormatTxn(n) == <<"T", "X", "N">> \o ZeroPad(Digits(n), 10)
\* format!("ACC{:08}", n)
FormatAcc(n) == <<"A", "C", "C">> \o ZeroPad(Digits(n), 8)
\* {amount:.2}
FormatAmount(cents) ==
    Digits(cents \div 100) \o <<".">> \o ZeroPad(Digits(cents % 100), 2)

\* format!("{id}|{from_id}{delimiter}{to_id}|{amount:.2}\n")
FormatLineSwapped(id, from_id, delimiter, to_id, cents) ==
    id \o <<"|">> \o to_id \o <<delimiter>> \o from_id \o <<"|">>
       \o FormatAmount(cents) \o <<"\n">>

FormatLine(id, from_id, delimiter, to_id, cents) ==
    id \o <<"|">> \o from_id \o <<delimiter>> \o to_id \o <<"|">>
       \o FormatAmount(cents) \o <<"\n">>

\* writeln!(writer, "id|from_id|to_id|amount")
HeaderWritten == HeaderLine \o <<"\n">>

\* while written_bytes < target_bytes
LoopContinuesInclusive(written, target) == written <= target
LoopContinues(written, target) == written < target

\* if rng.random_range(0..1000000) == 0 { malformed_records += 1; "l" }
CountEveryRecord(malformed, inject) == malformed + 1
CountMalformed(malformed, inject) == IF inject THEN malformed + 1 ELSE malformed

Unit == <<>>
GenOk      == [ok |-> TRUE, value |-> Unit, err |-> NoError]
GenErr(e)  == [ok |-> FALSE, value |-> Unit, err |-> e]
GenPending == [ok |-> FALSE, value |-> Unit, err |-> NoError]

\* The target sizes tried: those that fit, and the first two whose byte
\* count does not fit usize.
OverflowGB == CHOOSE g \in 1..UsizeRange :
                 g * GB >= UsizeRange /\ (g - 1) * GB < UsizeRange
TargetSizes == (0..MaxGB) \cup {OverflowGB, OverflowGB + 1}

GenIdle ==
    /\ target_size_gb = 0 /\ target_bytes = 0 /\ written_bytes = 0
    /\ record_count = 0 /\ malformed_records = 0 /\ sink = <<>>
    /\ emitted = <<>> /\ g_pc = "idle" /\ g_ret = GenPending

GenInit ==
    /\ target_size_gb \in TargetSizes /\ target_bytes = 0 /\ written_bytes = 0
    /\ record_count = 0 /\ malformed_records = 0 /\ sink = <<>>
    /\ emitted = <<>> /\ g_pc = "create" /\ g_ret = GenPending

\* File::create(path)? fails.
CreateFail ==
    /\ g_pc = "create"
    /\ g_pc' = "failed"
    /\ g_ret' = GenErr(IoError)
    /\ UNCHANGED <<target_size_gb, target_bytes, written_bytes, record_count,
                   malformed_records, sink, emitted, parseVars, loadVars, aggVars>>

\* File::create succeeds; the locals are set.  target_size_gb * 1024 *
\* 1024 * 1024 that does not fit usize panics where overflow is checked
\* and wraps where it is not.
Create ==
    /\ g_pc = "create"
    /\ \/ /\ target_size_gb * GB < UsizeRange
          /\ target_bytes' = target_size_gb * GB
          /\ g_pc' = "header"
       \/ /\ target_size_gb * GB >= UsizeRange
          /\ target_bytes' = (target_size_gb * GB) % UsizeRange
          /\ g_pc' = "header"
       \/ /\ target_size_gb * GB >= UsizeRange
          /\ target_bytes' = target_bytes
          /\ g_pc' = "panicked"
    /\ UNCHANGED <<target_size_gb, written_bytes, record_count,
                   malformed_records, sink, emitted, g_ret, parseVars, loadVars, aggVars>>

WriteHeader ==
    /\ g_pc = "header"
    /\ sink' = Append(sink, HeaderWritten)
    /\ g_pc' = "loop"
    /\ UNCHANGED <<target_size_gb, target_bytes, written_bytes, record_count,
                   malformed_records, emitted, g_ret, parseVars, loadVars, aggVars>>

\* One iteration of the while loop.
WriteRecord ==
    /\ g_pc = "loop"
    /\ LoopContinues(written_bytes, target_bytes)
    /\ \E from \in AccountSamples, to \in {AccMax},
          cents \in AmountCentsSamples, inject \in BOOLEAN :
          LET id        == FormatTxn(record_count)
              from_id   == FormatAcc(from)
              to_id     == FormatAcc(to)
              delimiter == IF inject THEN "l" ELSE "|"
              text      == FormatLine(id, from_id, delimiter, to_id, cents)
          IN  /\ malformed_records' = CountMalformed(malformed_records, inject)
              /\ sink' = Append(sink, text)
              /\ written_bytes' = written_bytes + Len(text)
              /\ emitted' = Append(emitted, [id |-> id, from_id |-> from_id,
                                             to_id |-> to_id,
                                             delimiter |-> delimiter])
    /\ record_count' = record_count + 1
    /\ UNCHANGED <<target_size_gb, target_bytes, g_pc, g_ret, parseVars, loadVars, aggVars>>

\* The loop condition fails.
LoopExit ==
    /\ g_pc = "loop"
    /\ ~LoopContinues(written_bytes, target_bytes)
    /\ g_pc' = "flush"
    /\ UNCHANGED <<target_size_gb, target_bytes, written_bytes, record_count,
                   malformed_records, sink, emitted, g_ret, parseVars, loadVars, aggVars>>

\* writer.flush()?; Ok(())
Flush ==
    /\ g_pc = "flush"
    /\ g_pc' = "done"
    /\ g_ret' = GenOk
    /\ UNCHANGED <<target_size_gb, target_bytes, written_bytes, record_count,
                   malformed_records, sink, emitted, parseVars, loadVars, aggVars>>

\* writeln!, write_all or flush fails: the error is returned.
WriteFail ==
    /\ g_pc \in {"header", "loop", "flush"}
    /\ g_pc' = "failed"
    /\ g_ret' = GenErr(IoError)
    /\ UNCHANGED <<target_size_gb, target_bytes, written_bytes, record_count,
                   malformed_records, sink, emitted, parseVars, loadVars, aggVars>>

(***************************************************************************)
(* mod analysis.  f64 addition is exact on the amounts drawn here (small   *)
(* integers and -0.0), so FAdd adds exactly and keeps IEEE 754's sign of a *)
(* zero sum: -0.0 only when both operands are -0.0.                        *)
(***************************************************************************)
PosZero == [neg |-> FALSE, m |-> 0, e |-> 0]
NegZero == [neg |-> TRUE, m |-> 0, e |-> 0]
F64(n) == [neg |-> n < 0, m |-> IF n < 0 THEN -n ELSE n, e |-> 0]

RECURSIVE Pow10(_)
Pow10(k) == IF k = 0 THEN 1 ELSE 10 * Pow10(k - 1)

Scaled(v, e) == (IF v.neg THEN -1 ELSE 1) * v.m * Pow10(e - v.e)

FAdd(a, b) ==
    LET e == IF a.e > b.e THEN a.e ELSE b.e
        s == Scaled(a, e) + Scaled(b, e)
    IN  IF s = 0
        THEN [neg |-> a.m = 0 /\ b.m = 0 /\ a.neg /\ b.neg, m |-> 0, e |-> 0]
        ELSE Normalise([neg |-> s < 0, m |-> IF s < 0 THEN -s ELSE s, e |-> e])

\* f64's ==: the two zeros are equal.
FEq(a, b) == a = b \/ (a.m = 0 /\ b.m = 0)

Front(xs) == SubSeq(xs, 1, Len(xs) - 1)

\* for record in records { total_amount += record.amount; count += 1; }
\* from total_amount = 0.0 and count = 0.
RECURSIVE analyze_greedy(_)
analyze_greedy(rs) ==
    IF rs = <<>> THEN <<PosZero, 0>>
    ELSE LET before == analyze_greedy(Front(rs))
         IN  <<FAdd(before[1], rs[Len(rs)].amount), before[2] + 1>>

\* .map(|r| r.amount)
Amounts(rs) == [i \in 1..Len(rs) |-> rs[i].amount]

\* Iterator::sum for f64: a left fold with + from the sum of no elements.
RECURSIVE Sum(_, _)
Sum(xs, zero) ==
    IF xs = <<>> THEN zero ELSE FAdd(Sum(Front(xs), zero), xs[Len(xs)])

analyze_functional_skip_first(rs, zero) ==
    <<Sum(SubSeq(Amounts(rs), 2, Len(rs)), zero), Len(rs)>>

\* records.iter().map(|r| r.amount).sum(), records.len()
analyze_functional(rs, zero) == <<Sum(Amounts(rs), zero), Len(rs)>>

\* DataFrame::new of the four columns built from the records.
RECURSIVE DistinctRows(_)
DistinctRows(rs) ==
    IF rs = <<>> THEN <<>>
    ELSE LET kept == DistinctRows(Front(rs))
         IN  IF \E i \in 1..Len(kept) : kept[i] = rs[Len(rs)]
             THEN kept ELSE Append(kept, rs[Len(rs)])

DataFrameDistinctRows(rs) ==
    LET kept == DistinctRows(rs)
    IN  [id      |-> [i \in 1..Len(kept) |-> kept[i].id],
         from_id |-> [i \in 1..Len(kept) |-> kept[i].from_id],
         to_id   |-> [i \in 1..Len(kept) |-> kept[i].to_id],
         amount  |-> [i \in 1..Len(kept) |-> kept[i].amount]]

DataFrame(rs) ==
    [id      |-> [i \in 1..Len(rs) |-> rs[i].id],
     from_id |-> [i \in 1..Len(rs) |-> rs[i].from_id],
     to_id   |-> [i \in 1..Len(rs) |-> rs[i].to_id],
     amount  |-> Amounts(rs)]

\* df.height()
Height(df) == Len(df.id)

\* The sum of the amount column and the height of the frame.  The order in
\* which the column is reduced is the library's; the amounts add exactly.
analyze_polars(rs) ==
    LET df == DataFrame(rs)
    IN  <<Sum(df.amount, PosZero), Height(df)>>

(***************************************************************************)
(* analyze_rayon: records.par_iter().map(|r| r.amount).sum().  The slice   *)
(* is split into contiguous parts, any part not yet begun may be split     *)
(* again, every part is folded into a sum of its own, and the sums of two  *)
(* neighbouring finished parts are added.  A part is [lo, hi, pos, sum]:   *)
(* the records lo..hi, of which lo..pos-1 are folded into sum.             *)
(***************************************************************************)
WholeSlice(rs, zero) == [lo |-> 1, hi |-> Len(rs), pos |-> 1, sum |-> zero]
Finished(p) == p.pos = p.hi + 1
Untouched(p) == p.pos = p.lo

\* Two neighbours are combined when both are finished.
MayCombineEarly(p, q) == Finished(p)
MayCombine(p, q) == Finished(p) /\ Finished(q)

Replace(ps, j, new) == SubSeq(ps, 1, j - 1) \o new \o SubSeq(ps, j + 1, Len(ps))

\* The collections aggregated: the records differ in their amounts alone.
AmountSamples == {NegZero, F64(1), F64(2), F64(-2)}
RecordOf(a) == [id |-> <<"T">>, from_id |-> <<"A">>, to_id |-> <<"B">>, amount |-> a]
RecordSamples == {RecordOf(a) : a \in AmountSamples}

NoResult == <<PosZero, 0>>

AggIdle ==
    /\ collection = <<>> /\ sum_zero = PosZero /\ a_pc = "idle"
    /\ greedy_ret = NoResult /\ functional_ret = NoResult
    /\ rayon_ret = NoResult /\ polars_ret = NoResult /\ partitions = <<>>

\* The sum of no f64 is 0.0 or -0.0, as the toolchain's Sum for f64 says.
AggInit ==
    /\ \E n \in 0..MaxRecords : collection \in [1..n -> RecordSamples]
    /\ sum_zero \in {PosZero, NegZero}
    /\ a_pc = "greedy"
    /\ greedy_ret = NoResult /\ functional_ret = NoResult
    /\ rayon_ret = NoResult /\ polars_ret = NoResult /\ partitions = <<>>

AnalyzeGreedy ==
    /\ a_pc = "greedy"
    /\ greedy_ret' = analyze_greedy(collection)
    /\ a_pc' = "functional"
    /\ UNCHANGED <<collection, sum_zero, functional_ret, rayon_ret, polars_ret,
                   partitions, parseVars, loadVars, genVars>>

AnalyzeFunctional ==
    /\ a_pc = "functional"
    /\ functional_ret' = analyze_functional(collection, sum_zero)
    /\ a_pc' = "rayon"
    /\ UNCHANGED <<collection, sum_zero, greedy_ret, rayon_ret, polars_ret,
                   partitions, parseVars, loadVars, genVars>>

RayonStart ==
    /\ a_pc = "rayon"
    /\ partitions' = <<WholeSlice(collection, sum_zero)>>
    /\ a_pc' = "rayon_run"
    /\ UNCHANGED <<collection, sum_zero, greedy_ret, functional_ret, rayon_ret,
                   polars_ret, parseVars, loadVars, genVars>>

\* A part not yet begun is split in two; each half gets a sum of its own.
RayonSplit ==
    /\ a_pc = "rayon_run"
    /\ \E j \in 1..Len(partitions) : \E mid \in partitions[j].lo..(partitions[j].hi - 1) :
          /\ Untouched(partitions[j])
          /\ partitions' = Replace(partitions, j,
                 <<[lo |-> partitions[j].lo, hi |-> mid, pos |-> partitions[j].lo,
                    sum |-> sum_zero],
                   [lo |-> mid + 1, hi |-> partitions[j].hi, pos |-> mid + 1,
                    sum |-> sum_zero]>>)
    /\ UNCHANGED <<collection, sum_zero, a_pc, greedy_ret, functional_ret,
                   rayon_ret, polars_ret, parseVars, loadVars, genVars>>

\* The worker of one part adds the part's next amount to the part's sum.
RayonFold ==
    /\ a_pc = "rayon_run"
    /\ \E j \in 1..Len(partitions) :
          /\ ~Finished(partitions[j])
          /\ partitions' = [partitions EXCEPT
                 ![j].sum = FAdd(@, collection[partitions[j].pos].amount),
                 ![j].pos = @ + 1]
    /\ UNCHANGED <<collection, sum_zero, a_pc, greedy_ret, functional_ret,
                   rayon_ret, polars_ret, parseVars, loadVars, genVars>>

\* The sums of two neighbouring partitions are added, left to right.
RayonCombine ==
    /\ a_pc = "rayon_run"
    /\ \E j \in 1..(Len(partitions) - 1) :
          /\ MayCombine(partitions[j], partitions[j + 1])
          /\ partitions' = SubSeq(partitions, 1, j - 1)
                 \o <<[lo  |-> partitions[j].lo, hi |-> partitions[j + 1].hi,
                       pos |-> partitions[j + 1].hi + 1,
                       sum |-> FAdd(partitions[j].sum, partitions[j + 1].sum)]>>
                 \o SubSeq(partitions, j + 2, Len(partitions))
    /\ UNCHANGED <<collection, sum_zero, a_pc, greedy_ret, functional_ret,
                   rayon_ret, polars_ret, parseVars, loadVars, genVars>>

\* One finished part is left: its sum is the total; count = records.len().
RayonReturn ==
    /\ a_pc = "rayon_run"
    /\ Len(partitions) = 1 /\ Finished(partitions[1])
    /\ rayon_ret' = <<partitions[1].sum, Len(collection)>>
    /\ partitions' = <<>>
    /\ a_pc' = "polars"
    /\ UNCHANGED <<collection, sum_zero, greedy_ret, functional_ret, polars_ret,
                   parseVars, loadVars, genVars>>

AnalyzePolars ==
    /\ a_pc = "polars"
    /\ polars_ret' = analyze_polars(collection)
    /\ a_pc' = "done"
    /\ UNCHANGED <<collection, sum_zero, greedy_ret, functional_ret, rayon_ret,
                   partitions, parseVars, loadVars, genVars>>

InitParse == ParseInit /\ LoadIdle /\ GenIdle /\ AggIdle
NextParse == ParseLine
SpecParse == InitParse /\ [][NextParse]_vars

InitLoad == LoadInit /\ ParseIdle /\ GenIdle /\ AggIdle
NextLoad == OpenFail \/ OpenOk \/ ReadLine \/ ReadFail \/ LoadReturn
SpecLoad == InitLoad /\ [][NextLoad]_vars

InitGen == GenInit /\ ParseIdle /\ LoadIdle /\ AggIdle
NextGen == CreateFail \/ Create \/ WriteHeader \/ WriteRecord \/ LoopExit
              \/ Flush \/ WriteFail
SpecGen == InitGen /\ [][NextGen]_vars

InitAgg == AggInit /\ ParseIdle /\ LoadIdle /\ GenIdle
NextAgg == AnalyzeGreedy \/ AnalyzeFunctional \/ RayonStart \/ RayonSplit
              \/ RayonFold \/ RayonCombine \/ RayonReturn \/ AnalyzePolars
SpecAgg == InitAgg /\ [][NextAgg]_vars

Init == InitParse \/ InitLoad \/ InitGen \/ InitAgg
Next == NextParse \/ NextLoad \/ NextGen \/ NextAgg
Spec == Init /\ [][Next]_vars

\* Generation with no I/O failure.  The function is straight-line code and
\* one loop on one thread: a step that can be taken is taken.
NextGenIoOk == Create \/ WriteHeader \/ WriteRecord \/ LoopExit \/ Flush
SpecGenIoOk == InitGen /\ [][NextGenIoOk]_vars /\ WF_vars(NextGenIoOk)

(***************************************************************************)
(* Claims about parse_line (SpecParse).                                    *)
(***************************************************************************)
Fields == Split(line)
Returned == p_pc = "returned"
Result == parsed[1]

\* C2 as stated: parse_line returns a Record only for exactly 4 fields, and
\* for every other field count n the error reports expected = 4 and got = n.
C2_EveryMismatchReportsGot ==
    Returned =>
        /\ Result.ok => Len(Fields) = 4
        /\ Len(Fields) # 4 =>
              /\ ~Result.ok
              /\ Result.err.kind \in {"NotEnoughFields", "MalformedRecord"}
              /\ Result.err.expected = Some(4)
              /\ Result.err.got = Some(Len(Fields))

\* C2 amended: a Record only for exactly 4 fields; more than 4 fields fail
\* with an error reporting expected = 4 and got = n; fewer than 4 fail with
\* an error reporting expected = 4 and no field count.
C2_FieldCount ==
    Returned =>
        /\ Result.ok => Len(Fields) = 4
        /\ Len(Fields) > 4 =>
              /\ ~Result.ok
              /\ Result.err.kind = "MalformedRecord"
              /\ Result.err.expected = Some(4)
              /\ Result.err.got = Some(Len(Fields))
        /\ Len(Fields) < 4 =>
              /\ ~Result.ok
              /\ Result.err.kind = "NotEnoughFields"
              /\ Result.err.expected = Some(4)
              /\ Result.err.got = None

C2_Witness == Returned /\ Len(Fields) = 3 /\ ~Result.ok

\* C3 as stated: with exactly 4 fields parse_line succeeds iff the trimmed
\* 4th field is a valid number; the Record holds the trimmed fields 1-3 and
\* the parsed amount; the failure carries the raw amount text.
C3_FailureCarriesRawText ==
    Returned /\ Len(Fields) = 4 =>
        /\ Result.ok <=> IsFloatLiteral(Trim(Fields[4]))
        /\ Result.ok =>
              Result.record = [id      |-> Trim(Fields[1]),
                               from_id |-> Trim(Fields[2]),
                               to_id   |-> Trim(Fields[3]),
                               amount  |-> ParseF64(Trim(Fields[4]))]
        /\ ~Result.ok =>
              /\ Result.err.kind = "ParseFloatError"
              /\ Result.err.text \in {Some(Fields[4]), Some(Trim(Fields[4]))}

\* C3 amended: as stated, except that the failure is the float parser's
\* error, which tells an empty amount from an invalid one and carries no
\* text.
C3_AmountDecides ==
    Returned /\ Len(Fields) = 4 =>
        /\ Result.ok <=> IsFloatLiteral(Trim(Fields[4]))
        /\ Result.ok =>
              Result.record = [id      |-> Trim(Fields[1]),
                               from_id |-> Trim(Fields[2]),
                               to_id   |-> Trim(Fields[3]),
                               amount  |-> ParseF64(Trim(Fields[4]))]
        /\ ~Result.ok =>
              /\ Result.err.kind = "ParseFloatError"
              /\ Result.err.detail =
                    IF Trim(Fields[4]) = <<>> THEN "Empty" ELSE "Invalid"
              /\ Result.err.text = None

C3_Witness ==
    /\ Returned /\ Len(Fields) = 4 /\ ~Result.ok
    /\ Fields[1] = <<>> /\ Trim(Fields[4]) # <<>>

(***************************************************************************)
(* Claims about open_file (SpecLoad).                                      *)
(***************************************************************************)
WellFormed(t) == parse_line(t).ok
Malformed(t) == ~parse_line(t).ok
RecordsOf(ls) ==
    LET good == SelectSeq(ls, WellFormed)
    IN  [i \in 1..Len(good) |-> parse_line(good[i]).record]

\* C1: for a file of a header followed by N well-formed and M malformed
\* lines in any interleaving, load returns exactly the N parsed well-formed
\* lines in file order and emits exactly M diagnostics, one per malformed
\* line in file order; the first line never yields a record.
C1_LoadKeepsWellFormedInOrder ==
    l_pc = "done" /\ l_ret.ok /\ file # <<>> =>
        /\ l_ret.value = RecordsOf(Tail(file))
        /\ Len(l_ret.value) = Len(SelectSeq(Tail(file), WellFormed))
        /\ Len(warnings) = Len(SelectSeq(Tail(file), Malformed))
        /\ [i \in 1..Len(warnings) |-> warnings[i].text]
              = SelectSeq(Tail(file), Malformed)

C1_Witness ==
    /\ l_pc = "done" /\ l_ret.ok /\ Len(file) = 3
    /\ WellFormed(file[1]) /\ Malformed(file[2]) /\ WellFormed(file[3])

\* C7: load returns an error iff opening or reading the source failed; a
\* parse failure neither makes load fail nor stops the scan; a failed read
\* returns the error alone, with none of the records parsed before it.
C7_OnlyIoFailureIsFatal ==
    /\ l_pc = "done" =>
          /\ ~l_ret.ok <=> io_error
          /\ ~l_ret.ok => l_ret.err = IoError /\ l_ret.value = <<>>
          /\ l_ret.ok => line_num = Len(file)
    /\ l_pc = "loop" => ~io_error

C7_Witness ==
    /\ l_pc = "done" /\ ~l_ret.ok
    /\ records # <<>> /\ warnings # <<>> /\ line_num < Len(file)

(***************************************************************************)
(* Claims about generate_mock_data (SpecGen, SpecGenIoOk).                 *)
(***************************************************************************)
\* BufRead::lines yields a line without its newline.
StripNewline(t) ==
    IF t # <<>> /\ t[Len(t)] = "\n" THEN SubSeq(t, 1, Len(t) - 1) ELSE t

RECURSIVE TotalLen(_)
TotalLen(ls) == IF ls = <<>> THEN 0 ELSE Len(Head(ls)) + TotalLen(Tail(ls))

RecordLines == Tail(sink)
\* target_size_gb * GB < UsizeRange: the byte count fits usize.
Fits == target_size_gb < OverflowGB
Completed == g_pc = "done"

\* C4: a record line emitted without corruption injection parses to a
\* Record with the generated id, from_id and to_id; a line emitted with it
\* is rejected with a field-count error, never accepted and never rejected
\* as an invalid amount.
C4_RoundTrip ==
    \A i \in 1..Len(emitted) :
        LET res == parse_line(StripNewline(sink[i + 1]))
        IN  /\ emitted[i].delimiter = "|" =>
                  /\ res.ok
                  /\ res.record.id = emitted[i].id
                  /\ res.record.from_id = emitted[i].from_id
                  /\ res.record.to_id = emitted[i].to_id
            /\ emitted[i].delimiter = "l" =>
                  /\ ~res.ok
                  /\ res.err.kind \in {"NotEnoughFields", "MalformedRecord"}

C4_Witness ==
    /\ Len(emitted) >= 2
    /\ emitted[1].delimiter = "l" /\ emitted[2].delimiter = "|"
    /\ emitted[2].from_id # emitted[2].to_id

C8_OnReturn ==
    Completed /\ Fits =>
        /\ sink[1] = HeaderWritten
        /\ written_bytes = TotalLen(RecordLines)
        /\ written_bytes >= target_size_gb * GB
        /\ Len(sink) > 1 =>
              written_bytes - Len(sink[Len(sink)]) < target_size_gb * GB
        /\ target_size_gb = 0 => sink = <<HeaderWritten>>

C8_NothingAfterExit == g_pc \in {"flush", "done"} => sink' = sink

Prefix(k) == SubSeq(collection, 1, k)

C6_CountIsLength ==
    /\ a_pc \in {"functional", "rayon", "rayon_run", "polars", "done"} =>
          greedy_ret[2] = Len(collection)
    /\ a_pc \in {"rayon", "rayon_run", "polars", "done"} =>
          functional_ret[2] = Len(collection)
    /\ a_pc \in {"polars", "done"} => rayon_ret[2] = Len(collection)
    /\ a_pc = "done" => polars_ret[2] = Len(collection)

C6_Witness ==
    /\ a_pc = "done" /\ Len(collection) >= 2
    /\ collection[1] = collection[2]

C10_Partitioned ==
    a_pc = "rayon_run" =>
        /\ partitions # <<>>
        /\ \A i \in 1..Len(collection) :
              Cardinality({j \in 1..Len(partitions) :
                             partitions[j].lo <= i /\ i <= partitions[j].hi}) = 1
        /\ \A j \in 1..Len(partitions) :
              /\ partitions[j].lo <= partitions[j].pos
              /\ partitions[j].pos <= partitions[j].hi + 1
              /\ j < Len(partitions) =>
                    partitions[j + 1].lo = partitions[j].hi + 1

C10_SameTotal ==
    a_pc \in {"polars", "done"} =>
        /\ FEq(rayon_ret[1], greedy_ret[1])
        /\ rayon_ret[2] = greedy_ret[2]

\* A step that keeps the parts changes one part at most, and only by
\* folding that part's next record into that part's sum.
C10_OwnSumOnly ==
    a_pc = "rayon_run" /\ a_pc' = "rayon_run"
      /\ Len(partitions') = Len(partitions) =>
        Cardinality({j \in 1..Len(partitions) :
                       partitions'[j] # partitions[j]}) <= 1

\* A step that leaves fewer parts adds the sums of two finished neighbours.
C10_FinalSumsOnly ==
    a_pc = "rayon_run" /\ a_pc' = "rayon_run"
      /\ Len(partitions') < Len(partitions) =>
        \E j \in 1..(Len(partitions) - 1) :
            /\ Finished(partitions[j]) /\ Finished(partitions[j + 1])
            /\ Len(partitions') = Len(partitions) - 1
            /\ partitions'[j].sum = FAdd(partitions[j].sum, partitions[j + 1].sum)
            /\ \A i \in 1..(j - 1) : partitions'[i] = partitions[i]
            /\ \A i \in (j + 1)..Len(partitions') :
                  partitions'[i] = partitions[i + 1]

=============================================================================
